---- MODULE Spec2Model ----
(***************************************************************************)
(* fastkml: the attribute registry (registry.py), the codec helpers        *)
(* (helpers.py) and the Link element (links.py).                           *)
(*                                                                         *)
(* Python text is a sequence of one-character strings, so that strip(),    *)
(* lower(), int(), float() and str() are computed character by character.  *)
(* Python values are tagged records: None, str, bool, int, float, Enum     *)
(* member, nested object, list.                                            *)
(***************************************************************************)
EXTENDS Integers, Sequences, FiniteSets, TLC

VARIABLES
  _registry,   \* Registry._registry: type -> list of RegistryItem (a dict)
  regLog,      \* history: the register(cls, item) calls, in call order
  op           \* the last call: its name, its arguments, its outcome

vars == <<_registry, regLog, op>>

----------------------------------------------------------------------------
(* Bounds of the model.                                                    *)

\* longest child text drawn from the whole alphabet
MaxLen == 3
\* most register() calls in one run
MaxRegs == 3
\* most children of an element handed to the nested-list decoder
MaxKids == 5

----------------------------------------------------------------------------
(* Python text.                                                            *)

Digit == {"0", "1", "2", "3", "4", "5", "6", "7", "8", "9"}

DigitVal(c) ==
  CASE c = "0" -> 0 [] c = "1" -> 1 [] c = "2" -> 2 [] c = "3" -> 3
    [] c = "4" -> 4 [] c = "5" -> 5 [] c = "6" -> 6 [] c = "7" -> 7
    [] c = "8" -> 8 [] c = "9" -> 9

DigitChar(d) ==
  CASE d = 0 -> "0" [] d = 1 -> "1" [] d = 2 -> "2" [] d = 3 -> "3"
    [] d = 4 -> "4" [] d = 5 -> "5" [] d = 6 -> "6" [] d = 7 -> "7"
    [] d = 8 -> "8" [] d = 9 -> "9"

\* str.isspace() characters
Whitespace == {" ", "\t", "\n"}

UpperLetters ==
  <<"A", "B", "C", "D", "E", "F", "G", "H", "I", "J", "K", "L", "M",
    "N", "O", "P", "Q", "R", "S", "T", "U", "V", "W", "X", "Y", "Z">>

LowerLetters ==
  <<"a", "b", "c", "d", "e", "f", "g", "h", "i", "j", "k", "l", "m",
    "n", "o", "p", "q", "r", "s", "t", "u", "v", "w", "x", "y", "z">>

LowerChar(c) ==
  IF \E i \in 1..26 : UpperLetters[i] = c
    THEN LowerLetters[CHOOSE i \in 1..26 : UpperLetters[i] = c]
    ELSE c

\* str.lower()
Lower(s) == [i \in 1..Len(s) |-> LowerChar(s[i])]

RECURSIVE LStrip(_)
LStrip(s) ==
  IF s # <<>> /\ Head(s) \in Whitespace THEN LStrip(Tail(s)) ELSE s

RECURSIVE RStrip(_)
RStrip(s) ==
  IF s # <<>> /\ s[Len(s)] \in Whitespace
    THEN RStrip(SubSeq(s, 1, Len(s) - 1))
    ELSE s

\* str.strip()
Strip(s) == RStrip(LStrip(s))

\* the digits of a digitpart, its underscores dropped
RECURSIVE DigitsOf(_)
DigitsOf(s) ==
  IF s = <<>> THEN <<>>
  ELSE IF Head(s) = "_" THEN DigitsOf(Tail(s))
  ELSE <<Head(s)>> \o DigitsOf(Tail(s))

\* digitpart ::= digit (["_"] digit)*
IsDigitPart(s) ==
  /\ s # <<>>
  /\ \A i \in 1..Len(s) : s[i] \in Digit \cup {"_"}
  /\ s[1] \in Digit
  /\ s[Len(s)] \in Digit
  /\ \A i \in 1..(Len(s) - 1) : ~(s[i] = "_" /\ s[i + 1] = "_")

RECURSIVE NatOf(_)
NatOf(ds) ==
  IF ds = <<>> THEN 0
  ELSE 10 * NatOf(SubSeq(ds, 1, Len(ds) - 1)) + DigitVal(ds[Len(ds)])

HasSign(s) == s # <<>> /\ Head(s) \in {"+", "-"}
Unsigned(s) == IF HasSign(s) THEN Tail(s) ELSE s
IsNeg(s) == s # <<>> /\ Head(s) = "-"

\* int(text): [ok |-> FALSE] stands for ValueError
PyInt(text) ==
  LET s == Strip(text)
      body == Unsigned(s)
  IN  IF IsDigitPart(body)
        THEN [ok |-> TRUE,
              val |-> IF IsNeg(s) THEN 0 - NatOf(DigitsOf(body))
                                  ELSE NatOf(DigitsOf(body))]
        ELSE [ok |-> FALSE, val |-> 0]

RECURSIVE NatStr(_)
NatStr(n) ==
  IF n < 10 THEN <<DigitChar(n)>>
  ELSE NatStr(n \div 10) \o <<DigitChar(n % 10)>>

\* str(int)
IntStr(n) == IF n < 0 THEN <<"-">> \o NatStr(0 - n) ELSE NatStr(n)

----------------------------------------------------------------------------
(* Python values.                                                          *)

None == [k |-> "none"]
StrV(s) == [k |-> "str", v |-> s]
BoolV(b) == [k |-> "bool", v |-> b]
IntV(n) == [k |-> "int", v |-> n]
\* an enum member: its class and its value (a text)
EnumV(c, s) == [k |-> "enum", cls |-> c, v |-> s]
\* a nested object: its class, its identity, and what bool(obj) gives
ObjV(c, i, t) == [k |-> "obj", cls |-> c, id |-> i, truthy |-> t]
ListV(l) == [k |-> "list", v |-> l]

\* A float: zero, +-inf, nan, or +-m * 10^e with m > 0 not divisible by 10.
\* Texts of at most 9 significant digits are modelled, where the decimal
\* digits determine the double and repr() gives the digits back.
FloatV(c, neg, m, e) == [k |-> "float", cls |-> c, neg |-> neg, m |-> m, e |-> e]
Inf(neg) == FloatV("inf", neg, 0, 0)
NaN == FloatV("nan", FALSE, 0, 0)

\* bool(value)
Truthy(x) ==
  CASE x.k = "none" -> FALSE
    [] x.k = "str" -> x.v # <<>>
    [] x.k = "bool" -> x.v
    [] x.k = "int" -> x.v # 0
    [] x.k = "float" -> ~(x.cls = "fin" /\ x.m = 0)
    [] x.k = "enum" -> TRUE
    [] x.k = "obj" -> x.truthy
    [] x.k = "list" -> x.v # <<>>

\* Python ==: nan equals nothing, 0.0 equals -0.0, lists compare by item
RECURSIVE PyEq(_, _)
PyEq(x, y) ==
  IF x.k # y.k THEN FALSE
  ELSE IF x.k = "float"
    THEN /\ x.cls # "nan" /\ y.cls # "nan"
         /\ \/ x = y
            \/ x.cls = "fin" /\ y.cls = "fin" /\ x.m = 0 /\ y.m = 0
  ELSE IF x.k = "list"
    THEN /\ Len(x.v) = Len(y.v)
         /\ \A i \in 1..Len(x.v) : PyEq(x.v[i], y.v[i])
  ELSE x = y

RECURSIVE Normalise(_, _, _)
Normalise(neg, m, e) ==
  IF m = 0 THEN FloatV("fin", neg, 0, 0)
  ELSE IF m % 10 = 0 THEN Normalise(neg, m \div 10, e + 1)
  ELSE FloatV("fin", neg, m, e)

\* m scaled to nine digits, to compare with the largest double 1.797693134...e308
RECURSIVE NineDigits(_)
NineDigits(m) == IF m >= 100000000 THEN m ELSE NineDigits(10 * m)

\* the double nearest to +-m * 10^e: overflow gives inf, underflow gives zero
Round(neg, m, e) ==
  LET n == Normalise(neg, m, e)
      adj == Len(NatStr(n.m)) + n.e   \* |n| = 0.d1d2... * 10^adj
  IN  IF n.m = 0 THEN n
      ELSE IF adj > 309 \/ (adj = 309 /\ NineDigits(n.m) > 179769313) THEN Inf(neg)
      ELSE IF adj < -323 THEN FloatV("fin", neg, 0, 0)
      ELSE n

\* the index of the first c in s, or 0
IndexOf(s, c) ==
  IF \E i \in 1..Len(s) : s[i] = c
    THEN CHOOSE i \in 1..Len(s) : s[i] = c /\ \A j \in 1..(i - 1) : s[j] # c
    ELSE 0

\* float(text): [ok |-> FALSE] stands for ValueError
PyFloat(text) ==
  LET s == Strip(text)
      body == Lower(Unsigned(s))
      neg == IsNeg(s)
      ePos == IndexOf(body, "e")
      mant == IF ePos = 0 THEN body ELSE SubSeq(body, 1, ePos - 1)
      exps == IF ePos = 0 THEN <<>> ELSE SubSeq(body, ePos + 1, Len(body))
      dot == IndexOf(mant, ".")
      ip == IF dot = 0 THEN mant ELSE SubSeq(mant, 1, dot - 1)
      fp == IF dot = 0 THEN <<>> ELSE SubSeq(mant, dot + 1, Len(mant))
      mantOk == IF dot = 0 THEN IsDigitPart(ip)
                ELSE /\ ip = <<>> \/ IsDigitPart(ip)
                     /\ fp = <<>> \/ IsDigitPart(fp)
                     /\ ~(ip = <<>> /\ fp = <<>>)
      expOk == ePos = 0 \/ IsDigitPart(Unsigned(exps))
      expVal == IF ePos = 0 THEN 0
                ELSE IF IsNeg(exps) THEN 0 - NatOf(DigitsOf(Unsigned(exps)))
                ELSE NatOf(DigitsOf(Unsigned(exps)))
      fdigits == DigitsOf(fp)
  IN  IF body \in {<<"i", "n", "f">>, <<"i", "n", "f", "i", "n", "i", "t", "y">>}
        THEN [ok |-> TRUE, val |-> Inf(neg)]
      ELSE IF body = <<"n", "a", "n">> THEN [ok |-> TRUE, val |-> NaN]
      ELSE IF mantOk /\ expOk
        THEN [ok |-> TRUE,
              val |-> Round(neg, NatOf(DigitsOf(ip) \o fdigits), expVal - Len(fdigits))]
      ELSE [ok |-> FALSE, val |-> NaN]

Zeros(n) == [i \in 1..n |-> "0"]

\* str(float), that is repr(float)
FloatStr(x) ==
  LET sign == IF x.neg THEN <<"-">> ELSE <<>>
      ds == NatStr(x.m)
      nd == Len(ds)
      decpt == nd + x.e
      ex == decpt - 1
      exDigits == IF ex < 0 THEN NatStr(0 - ex) ELSE NatStr(ex)
      exText == <<"e", IF ex < 0 THEN "-" ELSE "+">>
                  \o (IF Len(exDigits) < 2 THEN <<"0">> ELSE <<>>) \o exDigits
  IN  IF x.cls = "nan" THEN <<"n", "a", "n">>
      ELSE IF x.cls = "inf" THEN sign \o <<"i", "n", "f">>
      ELSE IF x.m = 0 THEN sign \o <<"0", ".", "0">>
      ELSE IF decpt < -3 \/ decpt > 16
        THEN sign \o <<ds[1]>>
               \o (IF nd > 1 THEN <<".">> \o SubSeq(ds, 2, nd) ELSE <<>>) \o exText
      ELSE IF decpt <= 0 THEN sign \o <<"0", ".">> \o Zeros(0 - decpt) \o ds
      ELSE IF decpt >= nd THEN sign \o ds \o Zeros(decpt - nd) \o <<".", "0">>
      ELSE sign \o SubSeq(ds, 1, decpt) \o <<".">> \o SubSeq(ds, decpt + 1, nd)

\* int(float): truncation; OverflowError on inf, ValueError on nan.  Only
\* whether the integer is zero is kept (its only use is bool(int(float))).
PyIntOfFloat(x) ==
  IF x.cls = "inf" THEN [exc |-> "OverflowError", nonzero |-> FALSE]
  ELSE IF x.cls = "nan" THEN [exc |-> "ValueError", nonzero |-> FALSE]
  ELSE [exc |-> "", nonzero |-> x.m # 0 /\ Len(NatStr(x.m)) + x.e >= 1]

----------------------------------------------------------------------------
(* The element tree: an element has a qualified tag and ordered children;  *)
(* a child has a qualified tag, a text (None or a str) and, when a nested  *)
(* object produced it, that object's identity.                             *)

Node(tag, text, id) == [tag |-> tag, text |-> text, id |-> id]
Element(tag, kids) == [tag |-> tag, kids |-> kids]

\* f"{ns}{node_name}"
QName(ns, name) == ns \o name

\* etree.SubElement(element, tag) followed by subelement.text = text
SubElement(element, tag, text) ==
  [element EXCEPT !.kids = Append(@, Node(tag, text, 0))]

\* element.append(node)
AppendChild(element, node) == [element EXCEPT !.kids = Append(@, node)]

\* element.find(tag): the position of the first child with that tag, 0 for None
Find(element, tag) ==
  IF \E i \in 1..Len(element.kids) : element.kids[i].tag = tag
    THEN CHOOSE i \in 1..Len(element.kids) :
           /\ element.kids[i].tag = tag
           /\ \A j \in 1..(i - 1) : element.kids[j].tag # tag
    ELSE 0

\* element.findall(tag): the children with that tag, in document order
RECURSIVE FindAllIn(_, _)
FindAllIn(kids, tag) ==
  IF kids = <<>> THEN <<>>
  ELSE IF Head(kids).tag = tag THEN <<Head(kids)>> \o FindAllIn(Tail(kids), tag)
  ELSE FindAllIn(Tail(kids), tag)

FindAll(element, tag) == FindAllIn(element.kids, tag)

\* node.text and node.text.strip()
HasText(node) == node.text.k = "str" /\ Strip(node.text.v) # <<>>

----------------------------------------------------------------------------
(* What a call gives: the mapping it returns, or the exception it raises.  *)
(* A dict is a function from keys to values; {} is the empty function.     *)

EmptyDict == <<>>
Returns(d) == [exc |-> "", ret |-> d]
Raises(e) == [exc |-> e, ret |-> EmptyDict]

\* d1.update(d2)
Update(d1, d2) ==
  [key \in DOMAIN d1 \cup DOMAIN d2 |-> IF key \in DOMAIN d2 THEN d2[key] ELSE d1[key]]

\* getattr(obj, attr_name, None)
GetAttr(obj, attr_name) ==
  IF attr_name \in DOMAIN obj.attrs THEN obj.attrs[attr_name] ELSE None

\* str(value) of a str, a bool, an int or a float
PyStr(x) ==
  CASE x.k = "str" -> x.v
    [] x.k = "bool" -> IF x.v THEN <<"T", "r", "u", "e">> ELSE <<"F", "a", "l", "s", "e">>
    [] x.k = "int" -> IntStr(x.v)
    [] x.k = "float" -> FloatStr(x)

\* int(value) of a bool or an int
PyIntOf(x) == IF x.k = "bool" THEN (IF x.v THEN 1 ELSE 0) ELSE x.v

----------------------------------------------------------------------------
(* helpers.py: the encoders.  Each gives the destination element as the    *)
(* call leaves it.                                                         *)

text_subelement(obj, element, attr_name, node_name) ==
  IF Truthy(GetAttr(obj, attr_name))
    THEN SubElement(element, QName(obj.ns, node_name), GetAttr(obj, attr_name))
    ELSE element

\* mutant: the attribute tested for truth, as the text encoder does
bool_subelement_truthy(obj, element, attr_name, node_name) ==
  IF Truthy(GetAttr(obj, attr_name))
    THEN SubElement(element, QName(obj.ns, node_name),
                    StrV(IntStr(PyIntOf(GetAttr(obj, attr_name)))))
    ELSE element

bool_subelement(obj, element, attr_name, node_name) ==
  IF GetAttr(obj, attr_name) # None
    THEN SubElement(element, QName(obj.ns, node_name),
                    StrV(IntStr(PyIntOf(GetAttr(obj, attr_name)))))
    ELSE element

int_subelement(obj, element, attr_name, node_name) ==
  IF GetAttr(obj, attr_name) # None
    THEN SubElement(element, QName(obj.ns, node_name), StrV(PyStr(GetAttr(obj, attr_name))))
    ELSE element

float_subelement(obj, element, attr_name, node_name) ==
  IF GetAttr(obj, attr_name) # None
    THEN SubElement(element, QName(obj.ns, node_name), StrV(PyStr(GetAttr(obj, attr_name))))
    ELSE element

enum_subelement(obj, element, attr_name, node_name) ==
  IF Truthy(GetAttr(obj, attr_name))
    THEN SubElement(element, QName(obj.ns, node_name), StrV(GetAttr(obj, attr_name).v))
    ELSE element

\* cls.get_tag_name()
get_tag_name(cls) == cls

\* item.etree_element(precision, verbosity) of a nested object
etree_element(item, ns) == Node(QName(ns, get_tag_name(item.cls)), None, item.id)

xml_subelement(obj, element, attr_name) ==
  IF Truthy(GetAttr(obj, attr_name))
    THEN AppendChild(element, etree_element(GetAttr(obj, attr_name), obj.ns))
    ELSE element

RECURSIVE AppendItems(_, _, _)
AppendItems(element, items, ns) ==
  IF items = <<>> THEN element
  ELSE AppendItems(AppendChild(element, etree_element(Head(items), ns)), Tail(items), ns)

xml_subelement_list(obj, element, attr_name) ==
  IF Truthy(GetAttr(obj, attr_name))
    THEN AppendItems(element, GetAttr(obj, attr_name).v, obj.ns)
    ELSE element

----------------------------------------------------------------------------
(* helpers.py: the decoders.                                               *)

\* fastkml.enums: the values of the enumerated types Link uses
EnumValues(enum_class) ==
  CASE enum_class = "RefreshMode" ->
         {<<"o", "n", "C", "h", "a", "n", "g", "e">>,
          <<"o", "n", "I", "n", "t", "e", "r", "v", "a", "l">>,
          <<"o", "n", "E", "x", "p", "i", "r", "e">>}
    [] enum_class = "ViewRefreshMode" ->
         {<<"n", "e", "v", "e", "r">>,
          <<"o", "n", "S", "t", "o", "p">>,
          <<"o", "n", "R", "e", "q", "u", "e", "s", "t">>,
          <<"o", "n", "R", "e", "g", "i", "o", "n">>}

\* enum_class(value): the member with that value, or ValueError
EnumLookup(enum_class, text) ==
  IF text \in EnumValues(enum_class)
    THEN [ok |-> TRUE, val |-> EnumV(enum_class, text)]
    ELSE [ok |-> FALSE, val |-> None]

subelement_text_kwarg(element, ns, node_name, kwarg, strict) ==
  LET i == Find(element, QName(ns, node_name))
  IN  IF i = 0 THEN Returns(EmptyDict)
      ELSE IF HasText(element.kids[i])
        THEN Returns(kwarg :> StrV(Strip(element.kids[i].text.v)))
        ELSE Returns(EmptyDict)

subelement_bool_kwarg(element, ns, node_name, kwarg, strict) ==
  LET i == Find(element, QName(ns, node_name))
      text == Strip(element.kids[i].text.v)
  IN  IF i = 0 THEN Returns(EmptyDict)
      ELSE IF HasText(element.kids[i])
        THEN IF strict
               THEN IF PyInt(text).ok
                      THEN Returns(kwarg :> BoolV(PyInt(text).val # 0))
                      ELSE Raises("ValueError")
             ELSE IF Lower(text) \in {<<"1">>, <<"t", "r", "u", "e">>}
               THEN Returns(kwarg :> BoolV(TRUE))
             ELSE IF Lower(text) \in {<<"0">>, <<"f", "a", "l", "s", "e">>}
               THEN Returns(kwarg :> BoolV(FALSE))
             ELSE IF ~PyFloat(text).ok THEN Returns(EmptyDict)
             ELSE IF PyIntOfFloat(PyFloat(text).val).exc = "ValueError"
               THEN Returns(EmptyDict)
             ELSE IF PyIntOfFloat(PyFloat(text).val).exc # ""
               THEN Raises(PyIntOfFloat(PyFloat(text).val).exc)
             ELSE Returns(kwarg :> BoolV(PyIntOfFloat(PyFloat(text).val).nonzero))
        ELSE Returns(EmptyDict)

\* mutant: ValueError swallowed whatever the strictness
subelement_int_kwarg_swallow(element, ns, node_name, kwarg, strict) ==
  LET i == Find(element, QName(ns, node_name))
      text == Strip(element.kids[i].text.v)
  IN  IF i = 0 THEN Returns(EmptyDict)
      ELSE IF HasText(element.kids[i])
        THEN IF PyInt(text).ok THEN Returns(kwarg :> IntV(PyInt(text).val))
             ELSE Returns(EmptyDict)
        ELSE Returns(EmptyDict)

subelement_int_kwarg(element, ns, node_name, kwarg, strict) ==
  LET i == Find(element, QName(ns, node_name))
      text == Strip(element.kids[i].text.v)
  IN  IF i = 0 THEN Returns(EmptyDict)
      ELSE IF HasText(element.kids[i])
        THEN IF PyInt(text).ok THEN Returns(kwarg :> IntV(PyInt(text).val))
             ELSE IF strict THEN Raises("ValueError")
             ELSE Returns(EmptyDict)
        ELSE Returns(EmptyDict)

subelement_float_kwarg(element, ns, node_name, kwarg, strict) ==
  LET i == Find(element, QName(ns, node_name))
      text == Strip(element.kids[i].text.v)
  IN  IF i = 0 THEN Returns(EmptyDict)
      ELSE IF HasText(element.kids[i])
        THEN IF PyFloat(text).ok THEN Returns(kwarg :> PyFloat(text).val)
             ELSE IF strict THEN Raises("ValueError")
             ELSE Returns(EmptyDict)
        ELSE Returns(EmptyDict)

\* mutant: a lenient path that omits the entry on a failed lookup, as the
\* integer and float decoders have
subelement_enum_kwarg_lenient(element, ns, node_name, kwarg, enum_class, strict) ==
  LET i == Find(element, QName(ns, node_name))
      text == Strip(element.kids[i].text.v)
  IN  IF i = 0 THEN Returns(EmptyDict)
      ELSE IF HasText(element.kids[i])
        THEN IF EnumLookup(enum_class, text).ok
               THEN Returns(kwarg :> EnumLookup(enum_class, text).val)
               ELSE IF strict THEN Raises("ValueError")
               ELSE Returns(EmptyDict)
        ELSE Returns(EmptyDict)

subelement_enum_kwarg(element, ns, node_name, kwarg, enum_class, strict) ==
  LET i == Find(element, QName(ns, node_name))
      text == Strip(element.kids[i].text.v)
  IN  IF i = 0 THEN Returns(EmptyDict)
      ELSE IF HasText(element.kids[i])
        THEN IF EnumLookup(enum_class, text).ok
               THEN Returns(kwarg :> EnumLookup(enum_class, text).val)
               ELSE Raises("ValueError")
        ELSE Returns(EmptyDict)

\* obj_class.class_from_element(ns, name_spaces, element, strict)
class_from_element(obj_class, node) == ObjV(obj_class, node.id, TRUE)

xml_subelement_kwarg(element, ns, kwarg, obj_class, strict) ==
  LET i == Find(element, QName(ns, get_tag_name(obj_class)))
  IN  IF i = 0 THEN Returns(EmptyDict)
      ELSE Returns(kwarg :> class_from_element(obj_class, element.kids[i]))

\* the list comprehension: one decoded instance per subelement, in order
DecodeEach(obj_class, subelements) ==
  [i \in 1..Len(subelements) |-> class_from_element(obj_class, subelements[i])]

\* the loop over obj_classes, args_list growing
RECURSIVE ExtendArgs(_, _, _, _)
ExtendArgs(args_list, element, ns, obj_classes) ==
  IF obj_classes = <<>> THEN args_list
  ELSE LET subelements == FindAll(element, QName(ns, get_tag_name(Head(obj_classes))))
       IN  ExtendArgs(IF subelements # <<>>
                        THEN args_list \o DecodeEach(Head(obj_classes), subelements)
                        ELSE args_list,
                      element, ns, Tail(obj_classes))

\* mutant: one pass over the children, each decoded as the candidate it matches
xml_subelement_list_kwarg_document_order(element, ns, kwarg, obj_classes, strict) ==
  LET matching == SelectSeq(element.kids,
                            LAMBDA n : \E i \in 1..Len(obj_classes) :
                                         n.tag = QName(ns, get_tag_name(obj_classes[i])))
      classOf(n) == obj_classes[CHOOSE i \in 1..Len(obj_classes) :
                                  n.tag = QName(ns, get_tag_name(obj_classes[i]))]
  IN  Returns(kwarg :> ListV([i \in 1..Len(matching) |->
                                class_from_element(classOf(matching[i]), matching[i])]))

xml_subelement_list_kwarg(element, ns, kwarg, obj_classes, strict) ==
  Returns(kwarg :> ListV(ExtendArgs(<<>>, element, ns, obj_classes)))

----------------------------------------------------------------------------
(* The inputs the codecs are applied to.                                   *)

Alphabet == {" ", "-", "0", "1", ".", "e"}

RECURSIVE SeqsUpTo(_, _)
SeqsUpTo(S, n) ==
  IF n = 0 THEN {<<>>}
  ELSE LET shorter == SeqsUpTo(S, n - 1)
       IN  shorter \cup {Append(t, c) : t \in shorter, c \in S}

NamedTexts ==
  {<<"t", "r", "u", "e">>, <<"T", "R", "U", "E">>, <<"T", "r", "u", "e">>,
   <<"f", "a", "l", "s", "e">>, <<"F", "a", "l", "s", "e">>,
   <<"m", "a", "y", "b", "e">>, <<"2", ".", "0">>, <<"0", ".", "5">>,
   <<"i", "n", "f">>, <<"-", "i", "n", "f">>, <<"n", "a", "n">>,
   <<"1", "e", "9", "9", "9">>, <<" ", "1", "2", "\n">>, <<"1", "_", "0">>,
   <<"o", "n", "C", "h", "a", "n", "g", "e">>, <<" ", "o", "n", "S", "t", "o", "p", " ">>,
   <<"\t", "o", "n", "E", "x", "p", "i", "r", "e", "\n">>,
   <<"o", "n", "c", "h", "a", "n", "g", "e">>, <<"n", "e", "v", "e", "r">>}

Texts == SeqsUpTo(Alphabet, MaxLen) \cup NamedTexts

\* node.text: None or a str
NodeTexts == {None} \cup {StrV(t) : t \in Texts}

Namespaces == {"", "{kml}"}
OtherNamespace(ns) == IF ns = "" THEN "{kml}" ELSE ""

\* Elements for the one-child decoders looking for f"{ns}n": without the
\* child, with it first, with it after another child, with it twice.
NoMatchKids(ns) ==
  {<<>>, <<Node(QName(ns, "m"), StrV(<<"1">>), 0)>>,
   <<Node(QName(OtherNamespace(ns), "n"), StrV(<<"1">>), 0)>>}

MatchKids(ns) ==
  UNION {{<<Node(QName(ns, "n"), t, 0)>>,
          <<Node(QName(ns, "m"), StrV(<<"1">>), 0), Node(QName(ns, "n"), t, 0)>>,
          <<Node(QName(ns, "n"), t, 0), Node(QName(ns, "n"), StrV(<<"1">>), 0)>>}
         : t \in NodeTexts}

PrimitiveDecoders ==
  {"subelement_text_kwarg", "subelement_bool_kwarg", "subelement_int_kwarg",
   "subelement_float_kwarg", "subelement_enum_kwarg"}

NoResult == Returns(EmptyDict)

\* the call record of a one-child decoder, before the call is made
PrimitiveDecodeCall(f, kids, ns, strict) ==
  [name |-> f, ph |-> "call", element |-> Element("parent", kids), ns |-> ns,
   node_name |-> "n", kwarg |-> "attr", enum_class |-> "RefreshMode",
   strict |-> strict, out |-> NoResult]

\* Children of nested types, by position: each is TypeA's, TypeB's or neither's.
NestedClasses == {"TypeA", "TypeB"}
KidTags == NestedClasses \cup {"Other"}

NestedKids(ns) ==
  {[i \in 1..Len(tags) |-> Node(QName(ns, tags[i]), None, i)]
   : tags \in SeqsUpTo(KidTags, MaxKids)}

\* tuples of one or more distinct candidate types
ClassTuples ==
  {t \in SeqsUpTo(NestedClasses, Cardinality(NestedClasses)) :
     /\ t # <<>>
     /\ \A i, j \in 1..Len(t) : i # j => t[i] # t[j]}

ObjectDecodeCall(c, kids, strict) ==
  [name |-> "xml_subelement_kwarg", ph |-> "call", element |-> Element("parent", kids),
   ns |-> "", kwarg |-> "attr", obj_class |-> c, strict |-> strict, out |-> NoResult]

ObjectListDecodeCall(cs, kids, strict) ==
  [name |-> "xml_subelement_list_kwarg", ph |-> "call", element |-> Element("parent", kids),
   ns |-> "", kwarg |-> "attr", obj_classes |-> cs, strict |-> strict, out |-> NoResult]

\* attribute values, by the kind of the encoder they are handed to
FloatValues ==
  {FloatV("fin", FALSE, 0, 0), FloatV("fin", TRUE, 0, 0), FloatV("fin", FALSE, 15, -1),
   FloatV("fin", TRUE, 2, 0), FloatV("fin", FALSE, 25, -2), FloatV("fin", FALSE, 1, 16),
   FloatV("fin", FALSE, 1, -5), Inf(FALSE), Inf(TRUE), NaN}

NestedObjects == {ObjV(c, i, t) : c \in NestedClasses, i \in 1..2, t \in BOOLEAN}

AttrValues(f) ==
  CASE f = "text_subelement" ->
         {StrV(t) : t \in SeqsUpTo({" ", "a"}, 2) \cup {<<"h", "t", "t", "p">>}}
    [] f = "bool_subelement" -> {BoolV(TRUE), BoolV(FALSE)}
    [] f = "int_subelement" -> {IntV(n) : n \in {-12, -1, 0, 1, 7, 10, 305}}
    [] f = "float_subelement" -> FloatValues
    [] f = "enum_subelement" ->
         {EnumV(c, v) : c \in {"RefreshMode"}, v \in EnumValues("RefreshMode")}
           \cup {EnumV(c, v) : c \in {"ViewRefreshMode"}, v \in EnumValues("ViewRefreshMode")}
    [] f = "xml_subelement" -> NestedObjects
    [] f = "xml_subelement_list" -> {ListV(l) : l \in SeqsUpTo(NestedObjects, 2)}

Encoders ==
  {"text_subelement", "bool_subelement", "int_subelement", "float_subelement",
   "enum_subelement", "xml_subelement", "xml_subelement_list"}

\* the object has the attribute unset (None), set, or does not have it at all
EncodeObjects(f) ==
  {[ns |-> ns, attrs |-> a]
   : ns \in Namespaces,
     a \in {EmptyDict} \cup {"attr" :> v : v \in {None} \cup AttrValues(f)}}

\* the destination element, empty or already holding a child
Destinations == {Element("parent", <<>>), Element("parent", <<Node("id", None, 0)>>)}

EncodeCall(f, o, el) ==
  [name |-> f, ph |-> "call", obj |-> o, element |-> el, attr_name |-> "attr",
   node_name |-> "n", out |-> el]

----------------------------------------------------------------------------
(* One action per codec: the call is made and its outcome recorded.        *)

Calling(f) == op.ph = "call" /\ op.name = f

Done(out) ==
  /\ op' = [op EXCEPT !.ph = "done", !.out = out]
  /\ UNCHANGED <<_registry, regLog>>

DecodeText ==
  /\ Calling("subelement_text_kwarg")
  /\ Done(subelement_text_kwarg(op.element, op.ns, op.node_name, op.kwarg, op.strict))

DecodeBool ==
  /\ Calling("subelement_bool_kwarg")
  /\ Done(subelement_bool_kwarg(op.element, op.ns, op.node_name, op.kwarg, op.strict))

DecodeInt ==
  /\ Calling("subelement_int_kwarg")
  /\ Done(subelement_int_kwarg(op.element, op.ns, op.node_name, op.kwarg, op.strict))

DecodeFloat ==
  /\ Calling("subelement_float_kwarg")
  /\ Done(subelement_float_kwarg(op.element, op.ns, op.node_name, op.kwarg, op.strict))

DecodeEnum ==
  /\ Calling("subelement_enum_kwarg")
  /\ Done(subelement_enum_kwarg(op.element, op.ns, op.node_name, op.kwarg,
                                op.enum_class, op.strict))

DecodeObject ==
  /\ Calling("xml_subelement_kwarg")
  /\ Done(xml_subelement_kwarg(op.element, op.ns, op.kwarg, op.obj_class, op.strict))

DecodeObjectList ==
  /\ Calling("xml_subelement_list_kwarg")
  /\ Done(xml_subelement_list_kwarg(op.element, op.ns, op.kwarg, op.obj_classes, op.strict))

EncodeText ==
  /\ Calling("text_subelement")
  /\ Done(text_subelement(op.obj, op.element, op.attr_name, op.node_name))

EncodeBool ==
  /\ Calling("bool_subelement")
  /\ Done(bool_subelement(op.obj, op.element, op.attr_name, op.node_name))

EncodeInt ==
  /\ Calling("int_subelement")
  /\ Done(int_subelement(op.obj, op.element, op.attr_name, op.node_name))

EncodeFloat ==
  /\ Calling("float_subelement")
  /\ Done(float_subelement(op.obj, op.element, op.attr_name, op.node_name))

EncodeEnum ==
  /\ Calling("enum_subelement")
  /\ Done(enum_subelement(op.obj, op.element, op.attr_name, op.node_name))

EncodeObject ==
  /\ Calling("xml_subelement")
  /\ Done(xml_subelement(op.obj, op.element, op.attr_name))

EncodeObjectList ==
  /\ Calling("xml_subelement_list")
  /\ Done(xml_subelement_list(op.obj, op.element, op.attr_name))

EmptyRegistry == <<>>

\* a codec is about to be called with arguments drawn from the sets above
InitCodec ==
  /\ _registry = EmptyRegistry /\ regLog = <<>>
  /\ \/ \E f \in PrimitiveDecoders, ns \in Namespaces, strict \in BOOLEAN :
          \E kids \in NoMatchKids(ns) \cup MatchKids(ns) :
            op = PrimitiveDecodeCall(f, kids, ns, strict)
     \/ \E ns \in Namespaces, strict \in BOOLEAN :
          \E kids \in NoMatchKids(ns) \cup MatchKids(ns) :
            op = [PrimitiveDecodeCall("subelement_enum_kwarg", kids, ns, strict)
                    EXCEPT !.enum_class = "ViewRefreshMode"]
     \/ \E c \in NestedClasses, strict \in BOOLEAN, kids \in NestedKids("") :
          op = ObjectDecodeCall(c, kids, strict)
     \/ \E cs \in ClassTuples, strict \in BOOLEAN, kids \in NestedKids("") :
          op = ObjectListDecodeCall(cs, kids, strict)
     \/ \E f \in Encoders, el \in Destinations :
          \E o \in EncodeObjects(f) : op = EncodeCall(f, o, el)

NextCodec ==
  \/ DecodeText \/ DecodeBool \/ DecodeInt \/ DecodeFloat \/ DecodeEnum
  \/ DecodeObject \/ DecodeObjectList
  \/ EncodeText \/ EncodeBool \/ EncodeInt \/ EncodeFloat \/ EncodeEnum
  \/ EncodeObject \/ EncodeObjectList

SpecCodec == InitCodec /\ [][NextCodec]_vars

----------------------------------------------------------------------------
(* Properties of the codecs, under SpecCodec.                              *)

Finished(f) == op.ph = "done" /\ op.name = f

\* the child a one-child decoder reads: the first one with the qualified name
ChildIndex == Find(op.element, QName(op.ns, op.node_name))
Child == op.element.kids[ChildIndex]

NumberDecoders == {"subelement_int_kwarg", "subelement_float_kwarg"}

\* int(text) or float(text), by the decoder: whether it parses, and the value
ParsedNumber(f, text) ==
  IF f = "subelement_int_kwarg"
    THEN [ok |-> PyInt(text).ok, val |-> IntV(PyInt(text).val)]
    ELSE PyFloat(text)

\* the same call made with the other strictness
OtherMode ==
  IF op.name = "subelement_int_kwarg"
    THEN subelement_int_kwarg(op.element, op.ns, op.node_name, op.kwarg, ~op.strict)
    ELSE subelement_float_kwarg(op.element, op.ns, op.node_name, op.kwarg, ~op.strict)

NumberDecoded ==
  /\ op.ph = "done" /\ op.name \in NumberDecoders
  /\ ChildIndex # 0 /\ HasText(Child)

\* C6: an integer or float decoder whose child holds non-empty stripped text
\* that does not parse raises ValueError when strict and returns no entry,
\* raising nothing, when lenient; when the text parses, both modes return the
\* same entry holding the parsed value.
C6_StrictnessDivergence ==
  NumberDecoded =>
    LET parsed == ParsedNumber(op.name, Strip(Child.text.v))
    IN  IF parsed.ok
          THEN /\ op.out = Returns(op.kwarg :> parsed.val)
               /\ OtherMode = op.out
          ELSE /\ op.strict => op.out.exc = "ValueError"
               /\ ~op.strict => op.out = Returns(EmptyDict)
               /\ OtherMode # op.out

\* C6 witness: a lenient integer decode of non-numeric text returned no entry.
C6_Witness ==
  /\ NumberDecoded /\ op.name = "subelement_int_kwarg" /\ ~op.strict
  /\ ~PyInt(Strip(Child.text.v)).ok
  /\ op.out = Returns(EmptyDict)

BoolDecoded ==
  /\ Finished("subelement_bool_kwarg")
  /\ ChildIndex # 0 /\ HasText(Child)

\* C7: a lenient boolean decode of non-empty text never raises: "true"/"1" in
\* any case give True, "false"/"0" give False, other text gives the
\* zero/non-zero reading of int(float(text)), and text that cannot be coerced
\* gives no entry; strict decode of text that is no integer raises.
C7_BoolLenientNeverRaises ==
  BoolDecoded =>
    LET text == Strip(Child.text.v)
        low == Lower(text)
        coerced == PyFloat(text).ok /\ PyIntOfFloat(PyFloat(text).val).exc = ""
    IN  IF op.strict
          THEN ~PyInt(text).ok => op.out.exc # ""
        ELSE /\ op.out.exc = ""
             /\ low \in {<<"1">>, <<"t", "r", "u", "e">>} =>
                  op.out.ret = (op.kwarg :> BoolV(TRUE))
             /\ low \in {<<"0">>, <<"f", "a", "l", "s", "e">>} =>
                  op.out.ret = (op.kwarg :> BoolV(FALSE))
             /\ low \notin {<<"1">>, <<"t", "r", "u", "e">>, <<"0">>, <<"f", "a", "l", "s", "e">>} =>
                  IF coerced
                    THEN op.out.ret =
                           (op.kwarg :> BoolV(PyIntOfFloat(PyFloat(text).val).nonzero))
                    ELSE op.out.ret = EmptyDict

PrimitiveEncoders ==
  {"text_subelement", "bool_subelement", "int_subelement", "float_subelement",
   "enum_subelement"}

Encoded == op.ph = "done" /\ op.name \in Encoders

\* the attribute the encoder reads, None when the object does not have it
Source == IF op.attr_name \in DOMAIN op.obj.attrs THEN op.obj.attrs[op.attr_name] ELSE None

\* absent: None; also empty text for text, an empty object or list for nested
Absent(f, x) ==
  \/ x = None
  \/ f = "text_subelement" /\ x = StrV(<<>>)
  \/ f = "xml_subelement" /\ ~x.truthy
  \/ f = "xml_subelement_list" /\ x = ListV(<<>>)

\* the text of the child a primitive encoder writes for a value
Stringified(f, x) ==
  CASE f = "text_subelement" -> x
    [] f = "bool_subelement" -> StrV(IF x.v THEN <<"1">> ELSE <<"0">>)
    [] f = "int_subelement" -> StrV(IntStr(x.v))
    [] f = "float_subelement" -> StrV(FloatStr(x))
    [] f = "enum_subelement" -> StrV(x.v)

\* C8: an encoder leaves the destination element as it was exactly when the
\* source attribute is absent; otherwise a primitive encoder appends exactly
\* one child, named f"{ns}{node_name}", carrying the stringified value
\* (booleans as "1"/"0"; False, 0 and 0.0 are not absent).
C8_AbsenceOmission ==
  Encoded =>
    /\ (op.out = op.element) <=> Absent(op.name, Source)
    /\ (op.name \in PrimitiveEncoders /\ ~Absent(op.name, Source)) =>
         op.out = [op.element EXCEPT !.kids =
                     Append(@, Node(QName(op.obj.ns, op.node_name),
                                    Stringified(op.name, Source), 0))]

\* C8 witness: boolean False was written as a child with text "0" after the
\* child the element already had.
C8_Witness ==
  /\ Finished("bool_subelement")
  /\ Source = BoolV(FALSE)
  /\ Len(op.element.kids) = 1
  /\ Len(op.out.kids) = 2
  /\ op.out.kids[2].text = StrV(<<"0">>)

ListDecoded == Finished("xml_subelement_list_kwarg")

\* where a class stands in the tuple of candidate types
CandidateIndex(c) == CHOOSE i \in 1..Len(op.obj_classes) : op.obj_classes[i] = c

\* the positions of the children whose tag is a candidate type's
MatchingKids ==
  {p \in 1..Len(op.element.kids) :
     \E i \in 1..Len(op.obj_classes) :
       op.element.kids[p].tag = QName(op.ns, op.obj_classes[i])}

\* C9: the nested-list decoder returns the decoded children grouped by
\* candidate type, the groups in the order the candidate types were given and
\* each group in document order; every matching child is decoded exactly once
\* and no other child is decoded.
C9_ListGroupedByCandidate ==
  ListDecoded =>
    /\ op.out.exc = ""
    /\ DOMAIN op.out.ret = {op.kwarg}
    /\ LET r == op.out.ret[op.kwarg].v
       IN  /\ \A k \in 1..Len(r) :
                /\ r[k].id \in MatchingKids
                /\ op.element.kids[r[k].id].tag = QName(op.ns, r[k].cls)
                /\ r[k] = ObjV(r[k].cls, r[k].id, TRUE)
           /\ \A p \in MatchingKids : Cardinality({k \in 1..Len(r) : r[k].id = p}) = 1
           /\ \A k, l \in 1..Len(r) :
                k < l =>
                  \/ CandidateIndex(r[k].cls) < CandidateIndex(r[l].cls)
                  \/ r[k].cls = r[l].cls /\ r[k].id < r[l].id

\* C9 witness: children of two candidate types interleaved in the document
\* came back grouped, so not in document order.
C9_Witness ==
  /\ ListDecoded
  /\ Len(op.obj_classes) = 2
  /\ LET r == op.out.ret[op.kwarg].v
     IN  /\ Len(r) >= 4
         /\ \E k \in 1..(Len(r) - 1) : r[k].id > r[k + 1].id
         /\ \E p, q \in MatchingKids :
              /\ p < q
              /\ op.element.kids[p].tag = QName(op.ns, op.obj_classes[2])
              /\ op.element.kids[q].tag = QName(op.ns, op.obj_classes[1])

\* whether the element has a child the finished decoder looks for
HasMatchingChild ==
  CASE op.name \in PrimitiveDecoders -> ChildIndex # 0
    [] op.name = "xml_subelement_kwarg" ->
         Find(op.element, QName(op.ns, op.obj_class)) # 0
    [] op.name = "xml_subelement_list_kwarg" -> MatchingKids # {}

\* C10: a decoder applied to an element without a matching child returns the
\* empty result and raises nothing, strict or lenient; the nested-list
\* decoder too, when no child is of a candidate type.
C10_NoMatchNoValue ==
  (/\ op.ph = "done"
   /\ op.name \in PrimitiveDecoders \cup {"xml_subelement_kwarg", "xml_subelement_list_kwarg"}
   /\ ~HasMatchingChild)
    => op.out = Returns(EmptyDict)

\* an enumerated-value decode that found its child has finished
EnumDecoded == Finished("subelement_enum_kwarg") /\ ChildIndex # 0

\* the same enumerated-value call made with the other strictness
OtherModeEnum ==
  subelement_enum_kwarg(op.element, op.ns, op.node_name, op.kwarg,
                        op.enum_class, ~op.strict)

\* the child's text with surrounding whitespace removed; "" when it has none
StrippedText == IF Child.text = None THEN <<>> ELSE Strip(Child.text.v)

\* C11: an enumerated-value decode gives the same outcome strict and lenient:
\* the member whose value is the stripped child text when there is one, no
\* entry when the text is missing, empty or whitespace only, and a raised
\* ValueError (never an omitted entry) when non-empty text is no member.
C11_EnumLookupIgnoresStrictness ==
  EnumDecoded =>
    /\ OtherModeEnum = op.out
    /\ StrippedText \in EnumValues(op.enum_class)
         => op.out = Returns(op.kwarg :> EnumV(op.enum_class, StrippedText))
    /\ StrippedText = <<>> => op.out = Returns(EmptyDict)
    /\ (StrippedText # <<>> /\ StrippedText \notin EnumValues(op.enum_class))
         => op.out = Raises("ValueError")

\* C11 witness: a lenient decode of non-empty text that is no member of the
\* enumerated type has raised ValueError.
C11_Witness ==
  /\ EnumDecoded /\ ~op.strict
  /\ StrippedText # <<>> /\ StrippedText \notin EnumValues(op.enum_class)
  /\ op.out = Raises("ValueError")

----------------------------------------------------------------------------
(* registry.py: the participating types.  links.py declares Icon(Link) and *)
(* Link(_BaseObject); _BaseObject(_XMLObject) is fastkml.base.             *)

Classes == {"_XMLObject", "_BaseObject", "Link", "Icon"}

\* cls.__mro__
Mro(cls) ==
  CASE cls = "_XMLObject" -> <<"_XMLObject", "object">>
    [] cls = "_BaseObject" -> <<"_BaseObject", "_XMLObject", "object">>
    [] cls = "Link" -> <<"Link", "_BaseObject", "_XMLObject", "object">>
    [] cls = "Icon" -> <<"Icon", "Link", "_BaseObject", "_XMLObject", "object">>

\* reversed(seq)
Reversed(seq) == [i \in 1..Len(seq) |-> seq[Len(seq) + 1 - i]]

\* dict.get(key, default)
DictGet(d, key, default) == IF key \in DOMAIN d THEN d[key] ELSE default

\* A RegistryItem.  get_kwarg and set_element are callables of the GetKWArgs
\* and SetElement protocols; they are named by the codec they apply.
RegistryItem(classes, attr_name, get_kwarg, set_element, node_name) ==
  [classes |-> classes, attr_name |-> attr_name, get_kwarg |-> get_kwarg,
   set_element |-> set_element, node_name |-> node_name]

\* item.get_kwarg(element, ns, name_spaces, node_name, attr_name, classes, strict)
CallGetKwarg(item, element, ns, strict) ==
  CASE item.get_kwarg = "text" ->
         subelement_text_kwarg(element, ns, item.node_name, item.attr_name, strict)
    [] item.get_kwarg = "int" ->
         subelement_int_kwarg(element, ns, item.node_name, item.attr_name, strict)

\* item.set_element(obj, element, attr_name, node_name, precision, verbosity)
CallSetElement(item, obj, element) ==
  CASE item.set_element = "text_subelement" ->
         text_subelement(obj, element, item.attr_name, item.node_name)
    [] item.set_element = "int_subelement" ->
         int_subelement(obj, element, item.attr_name, item.node_name)

\* mutant: the new item replaces the type's list
Registry_register_replace(registry, cls, item) ==
  Update(registry, cls :> <<item>>)

\* Registry.register: the registry after the call
Registry_register(registry, cls, item) ==
  Update(registry, cls :> Append(DictGet(registry, cls, <<>>), item))

\* the loop of Registry.get over parents, items growing
RECURSIVE ExtendItems(_, _, _)
ExtendItems(items, registry, parents) ==
  IF parents = <<>> THEN items
  ELSE ExtendItems(items \o DictGet(registry, Head(parents), <<>>), registry, Tail(parents))

\* mutant: the method resolution order walked as it stands, the type first
Registry_get_unreversed(registry, cls) ==
  ExtendItems(<<>>, registry, SubSeq(Mro(cls), 1, Len(Mro(cls)) - 1))

\* Registry.get
Registry_get(registry, cls) ==
  ExtendItems(<<>>, registry, Reversed(SubSeq(Mro(cls), 1, Len(Mro(cls)) - 1)))

\* mutant: a key already in kwargs is kept (setdefault)
RECURSIVE GetKwargsLoop_keep_first(_, _, _, _, _)
GetKwargsLoop_keep_first(kwargs, items, element, ns, strict) ==
  IF items = <<>> THEN Returns(kwargs)
  ELSE LET got == CallGetKwarg(Head(items), element, ns, strict)
       IN  IF got.exc # "" THEN Raises(got.exc)
           ELSE GetKwargsLoop_keep_first(
                  Update(Head(items).attr_name :> got.ret, kwargs),
                  Tail(items), element, ns, strict)

\* the loop of Registry.get_kwargs: kwargs[item.attr_name] = item.get_kwarg(...),
\* an exception of a call ending the loop
RECURSIVE GetKwargsLoop(_, _, _, _, _)
GetKwargsLoop(kwargs, items, element, ns, strict) ==
  IF items = <<>> THEN Returns(kwargs)
  ELSE LET got == CallGetKwarg(Head(items), element, ns, strict)
       IN  IF got.exc # "" THEN Raises(got.exc)
           ELSE GetKwargsLoop(Update(kwargs, Head(items).attr_name :> got.ret),
                              Tail(items), element, ns, strict)

\* Registry.get_kwargs
Registry_get_kwargs(registry, cls, element, ns, strict) ==
  GetKwargsLoop(EmptyDict, Registry_get(registry, cls), element, ns, strict)

\* the loop of Registry.sub_element: the element as the calls leave it, and
\* the items whose set_element was called, in call order
RECURSIVE SubElementLoop(_, _, _)
SubElementLoop(done, items, obj) ==
  IF items = <<>> THEN done
  ELSE SubElementLoop([element |-> CallSetElement(Head(items), obj, done.element),
                       calls |-> Append(done.calls, Head(items))],
                      Tail(items), obj)

\* Registry.sub_element
Registry_sub_element(registry, obj, element) ==
  SubElementLoop([element |-> element, calls |-> <<>>], Registry_get(registry, obj.cls), obj)

----------------------------------------------------------------------------
(* The registry as a state machine: register, get, get_kwargs and          *)
(* sub_element are called in any order.                                    *)

\* the descriptors registered: attribute a read as text from n1 or from n2,
\* attribute b read as an integer from n1
Items ==
  {RegistryItem(<<"str">>, "a", "text", "text_subelement", "n1"),
   RegistryItem(<<"str">>, "a", "text", "text_subelement", "n2"),
   RegistryItem(<<"int">>, "b", "int", "int_subelement", "n1")}

\* the types register is called for; _XMLObject and Link register nothing,
\* so Link resolves to what it inherits and Icon skips a level
RegisteringClasses == {"_BaseObject", "Icon"}

RegistryKids ==
  LET n1(t) == Node("n1", StrV(t), 0)
      n2(t) == Node("n2", StrV(t), 0)
  IN  {<<>>, <<n1(<<"7">>)>>, <<n2(<<"x">>)>>, <<n1(<<"7">>), n2(<<"x">>)>>,
       <<n2(<<"7">>), n1(<<"x">>)>>}

RegistryObjects ==
  {[cls |-> c, ns |-> "", attrs |-> [a |-> x, b |-> y]]
   : c \in Classes, x \in {None, StrV(<<"u">>)}, y \in {None, IntV(0)}}

Register(cls, item) ==
  /\ Len(regLog) < MaxRegs
  /\ _registry' = Registry_register(_registry, cls, item)
  /\ regLog' = Append(regLog, [cls |-> cls, item |-> item])
  /\ op' = [name |-> "register", cls |-> cls, item |-> item]

Get(cls) ==
  /\ op' = [name |-> "get", cls |-> cls, out |-> Registry_get(_registry, cls)]
  /\ UNCHANGED <<_registry, regLog>>

GetKwargs(cls, element, strict) ==
  /\ op' = [name |-> "get_kwargs", cls |-> cls, element |-> element, ns |-> "",
            strict |-> strict,
            out |-> Registry_get_kwargs(_registry, cls, element, "", strict)]
  /\ UNCHANGED <<_registry, regLog>>

SubElementCall(obj, element) ==
  /\ op' = [name |-> "sub_element", obj |-> obj, element |-> element,
            out |-> Registry_sub_element(_registry, obj, element)]
  /\ UNCHANGED <<_registry, regLog>>

Init == _registry = EmptyRegistry /\ regLog = <<>> /\ op = [name |-> "init"]

Next ==
  \/ \E cls \in RegisteringClasses, item \in Items : Register(cls, item)
  \/ \E cls \in Classes : Get(cls)
  \/ \E cls \in Classes, kids \in RegistryKids, strict \in BOOLEAN :
       GetKwargs(cls, Element(cls, kids), strict)
  \/ \E obj \in RegistryObjects : SubElementCall(obj, Element(obj.cls, <<>>))

Spec == Init /\ [][Next]_vars

----------------------------------------------------------------------------
(* Properties of the registry, under Spec.  What the registry should hold  *)
(* and resolve to is computed from the history of register calls.          *)

\* the items register was called with for a type, in call order
RegisteredFor(cls) ==
  LET calls == SelectSeq(regLog, LAMBDA e : e.cls = cls)
  IN  [i \in 1..Len(calls) |-> calls[i].item]

\* the types from the most general to the most derived
Generality == <<"_XMLObject", "_BaseObject", "Link", "Icon">>

\* anc is cls or an ancestor of cls
InheritsFrom(cls, anc) == \E i \in 1..Len(Mro(cls)) : Mro(cls)[i] = anc

\* the resolved sequence of a type: each level's registrations in call order,
\* the levels from the most general ancestor down to the type
RECURSIVE ResolutionFrom(_, _)
ResolutionFrom(levels, cls) ==
  IF levels = <<>> THEN <<>>
  ELSE (IF InheritsFrom(cls, Head(levels)) THEN RegisteredFor(Head(levels)) ELSE <<>>)
         \o ResolutionFrom(Tail(levels), cls)

Resolution(cls) == ResolutionFrom(Generality, cls)

\* the first child of the element a descriptor reads
ItemChild(item, element) == element.kids[Find(element, item.node_name)]

\* whether a descriptor finds a value in the element, and the value
ItemFinds(item, element) ==
  /\ Find(element, item.node_name) # 0
  /\ HasText(ItemChild(item, element))
  /\ item.get_kwarg = "int" => PyInt(ItemChild(item, element).text.v).ok

ItemValue(item, element) ==
  IF item.get_kwarg = "int"
    THEN IntV(PyInt(ItemChild(item, element).text.v).val)
    ELSE StrV(Strip(ItemChild(item, element).text.v))

Decoded == op.name = "get_kwargs" /\ op.out.exc = ""

\* C2: the mapping get_kwargs returns has a key only for an attribute one of
\* whose descriptors found a value, and the key's value is the decoded value
\* itself (of the last descriptor that found one).
C2_KeyOnlyWhenDecoded ==
  Decoded =>
    \A attr \in {"a", "b"} :
      LET items == Resolution(op.cls)
          found == {i \in 1..Len(items) :
                      items[i].attr_name = attr /\ ItemFinds(items[i], op.element)}
          last == CHOOSE i \in found : \A j \in found : j <= i
      IN  /\ attr \in DOMAIN op.out.ret <=> found # {}
          /\ found # {} => op.out.ret[attr] = ItemValue(items[last], op.element)

\* a registration of attr on a strict ancestor of reg's type, read from
\* another node
OverriddenBy(reg, attr) ==
  {e \in 1..Len(regLog) :
     /\ regLog[e].item.attr_name = attr
     /\ regLog[e].cls # reg.cls
     /\ InheritsFrom(reg.cls, regLog[e].cls)
     /\ regLog[e].item.node_name # reg.item.node_name}

\* the last registration of attr on the most derived type of cls's ancestry
\* that registers attr
Winner(cls, attr) ==
  LET mine == {e \in 1..Len(regLog) :
                 regLog[e].item.attr_name = attr /\ InheritsFrom(cls, regLog[e].cls)}
  IN  CHOOSE e \in mine :
        \A f \in mine :
          /\ InheritsFrom(regLog[e].cls, regLog[f].cls)
          /\ regLog[f].cls = regLog[e].cls => f <= e

\* a decode of a subtype that re-registers attr, of an element holding a
\* value under the ancestor's node name and under the subtype's
OverrideDecoded(attr) ==
  /\ Decoded
  /\ \E e \in 1..Len(regLog) :
       regLog[e].item.attr_name = attr /\ InheritsFrom(op.cls, regLog[e].cls)
  /\ OverriddenBy(regLog[Winner(op.cls, attr)], attr) # {}
  /\ \A e \in OverriddenBy(regLog[Winner(op.cls, attr)], attr) \cup {Winner(op.cls, attr)} :
       ItemFinds(regLog[e].item, op.element)

\* C3: when a subtype re-registers an attribute an ancestor registered, and
\* the element holds values under both node names, what get_kwargs stores
\* under the attribute is what the subtype's descriptor produced, carrying
\* the value of the subtype's node, and not what the ancestor's produced.
C3_SubtypeOverridesAncestor ==
  \A attr \in {"a", "b"} :
    OverrideDecoded(attr) =>
      LET sub == regLog[Winner(op.cls, attr)].item
      IN  /\ op.out.ret[attr] = (attr :> ItemValue(sub, op.element))
          /\ \A e \in OverriddenBy(regLog[Winner(op.cls, attr)], attr) :
               op.out.ret[attr] # (attr :> ItemValue(regLog[e].item, op.element))

\* C3 witness: Icon re-registered a, read from another node than its
\* ancestor's registration made later, both nodes held text, and the decode
\* of an Icon stored what Icon's descriptor produced.
C3_Witness ==
  /\ OverrideDecoded("a")
  /\ op.cls = "Icon"
  /\ regLog[Winner("Icon", "a")].cls = "Icon"
  /\ \E e \in OverriddenBy(regLog[Winner("Icon", "a")], "a") : e > Winner("Icon", "a")
  /\ op.out.ret["a"] = ("a" :> ItemValue(regLog[Winner("Icon", "a")].item, op.element))

Encoding == op.name = "sub_element"

\* whether the encoder of a descriptor emits a child for the object
ItemEmits(item, obj) == obj.attrs[item.attr_name] # None

\* C4: sub_element calls set_element of every descriptor of the resolved
\* sequence of type(obj) once, in resolution order, ancestors' descriptors
\* before the subtype's and each level in registration order; nothing is
\* de-duplicated by attribute name, so the children appended are those of
\* every descriptor whose attribute is set, one per descriptor, in that order.
C4_EncodeInResolutionOrder ==
  Encoding =>
    LET emitting == SelectSeq(Resolution(op.obj.cls), LAMBDA it : ItemEmits(it, op.obj))
    IN  /\ op.out.calls = Resolution(op.obj.cls)
        /\ Len(op.out.element.kids) = Len(op.element.kids) + Len(emitting)
        /\ \A i \in 1..Len(emitting) :
             op.out.element.kids[Len(op.element.kids) + i].tag =
               QName(op.obj.ns, emitting[i].node_name)

\* C4 witness: Icon registered a before _BaseObject did, an Icon with a set
\* was encoded by three descriptors, and a was emitted twice, the ancestor's
\* node first.
C4_Witness ==
  /\ Encoding
  /\ op.obj.cls = "Icon"
  /\ op.obj.attrs["a"] # None
  /\ Len(op.out.calls) = 3
  /\ regLog[1].cls = "Icon"
  /\ \E i, j \in 1..Len(op.out.calls) :
       /\ i < j
       /\ op.out.calls[i].attr_name = "a" /\ op.out.calls[j].attr_name = "a"
       /\ op.out.calls[i] \in {regLog[e].item : e \in {f \in 1..Len(regLog) : regLog[f].cls = "_BaseObject"}}
       /\ op.out.calls[j] = regLog[1].item
  /\ Cardinality({k \in 1..Len(op.out.element.kids) :
                    op.out.element.kids[k].text = op.obj.attrs["a"]}) >= 2

\* C5: the list stored for each type is exactly the items register was
\* called with for that type, in call order, duplicates kept; types never
\* registered have no list; this holds after every register, get, get_kwargs
\* and sub_element call.
C5_RegistryIsRegistrationLog ==
  /\ DOMAIN _registry = {regLog[e].cls : e \in 1..Len(regLog)}
  /\ \A cls \in DOMAIN _registry : _registry[cls] = RegisteredFor(cls)

\* C5 witness: after get was called for a type with no registrations, the
\* registry holds the same item twice for Icon, another list for _BaseObject,
\* and nothing for the type asked about.
C5_Witness ==
  /\ op.name = "get" /\ op.cls = "_XMLObject"
  /\ "_XMLObject" \notin DOMAIN _registry
  /\ DOMAIN _registry = {"_BaseObject", "Icon"}
  /\ Len(_registry["Icon"]) = 2
  /\ _registry["Icon"][1] = _registry["Icon"][2]
  /\ Len(_registry["_BaseObject"]) = 1

----------------------------------------------------------------------------
(* links.py: Link.  A Link is encoded by Link.etree_element and decoded by *)
(* Link._get_kwargs, whose mapping the constructor is called with.         *)

\* the keyword parameters of the decoders (helpers.py), and those without
\* a default
Parameters(f) ==
  CASE f \in {"subelement_text_kwarg", "subelement_float_kwarg"} ->
         {"element", "ns", "name_spaces", "node_name", "kwarg", "strict"}
    [] f = "subelement_enum_kwarg" ->
         {"element", "ns", "name_spaces", "node_name", "kwarg", "enum_class", "strict"}

Required(f) == Parameters(f) \ {"name_spaces"}

\* whether a call with these keyword arguments binds; if not, TypeError
Binds(f, args) == DOMAIN args \subseteq Parameters(f) /\ Required(f) \subseteq DOMAIN args

CallKw(f, args) ==
  IF ~Binds(f, args) THEN Raises("TypeError")
  ELSE CASE f = "subelement_text_kwarg" ->
              subelement_text_kwarg(args.element, args.ns, args.node_name, args.kwarg,
                                    args.strict)
         [] f = "subelement_float_kwarg" ->
              subelement_float_kwarg(args.element, args.ns, args.node_name, args.kwarg,
                                     args.strict)
         [] f = "subelement_enum_kwarg" ->
              subelement_enum_kwarg(args.element, args.ns, args.node_name, args.kwarg,
                                    args.enum_class, args.strict)

\* kwargs.update(call) for each call in turn, the first exception ending it
RECURSIVE UpdateEach(_, _)
UpdateEach(kwargs, calls) ==
  IF calls = <<>> THEN Returns(kwargs)
  ELSE LET got == CallKw(Head(calls).f, Head(calls).args)
       IN  IF got.exc # "" THEN Raises(got.exc)
           ELSE UpdateEach(Update(kwargs, got.ret), Tail(calls))

LinkAttributes ==
  {"href", "view_format", "http_query", "refresh_mode", "view_refresh_mode",
   "refresh_interval", "view_refresh_time", "view_bound_scale"}

\* super().etree_element(): the element of the object, before its children
Base_etree_element(obj) == Element(QName(obj.ns, get_tag_name(obj.cls)), <<>>)

\* super()._get_kwargs(): nothing of the attributes Link declares
Base_get_kwargs(element, ns, strict) == EmptyDict

\* Link.etree_element
Link_etree_element(obj) ==
  LET e0 == Base_etree_element(obj)
      e1 == text_subelement(obj, e0, "href", "href")
      e2 == text_subelement(obj, e1, "view_format", "viewFormat")
      e3 == text_subelement(obj, e2, "http_query", "httpQuery")
      e4 == enum_subelement(obj, e3, "refresh_mode", "refreshMode")
      e5 == enum_subelement(obj, e4, "view_refresh_mode", "viewRefreshMode")
      e6 == float_subelement(obj, e5, "view_refresh_time", "viewRefreshTime")
      e7 == float_subelement(obj, e6, "refresh_interval", "refreshInterval")
  IN  float_subelement(obj, e7, "view_bound_scale", "viewBoundScale")

\* Link._get_kwargs
Link_get_kwargs(element, ns, strict) ==
  LET text(node_name, kwarg) ==
        [f |-> "subelement_text_kwarg",
         args |-> [element |-> element, ns |-> ns, node_name |-> node_name,
                   kwarg |-> kwarg, strict |-> strict]]
      enum(node_name, kwarg, classes) ==
        [f |-> "subelement_enum_kwarg",
         args |-> [element |-> element, ns |-> ns, name_spaces |-> None,
                   node_name |-> node_name, kwarg |-> kwarg, classes |-> classes,
                   strict |-> strict]]
      float(node_name, kwarg) ==
        [f |-> "subelement_float_kwarg",
         args |-> [element |-> element, ns |-> ns, node_name |-> node_name,
                   kwarg |-> kwarg, strict |-> strict]]
  IN  UpdateEach(Base_get_kwargs(element, ns, strict),
                 <<text("href", "href"),
                   text("viewFormat", "view_format"),
                   text("httpQuery", "http_query"),
                   enum("refreshMode", "refresh_mode", <<"RefreshMode">>),
                   enum("viewRefreshMode", "view_refresh_mode", <<"ViewRefreshMode">>),
                   float("refreshInterval", "refresh_interval"),
                   float("viewRefreshTime", "view_refresh_time"),
                   float("viewBoundScale", "view_bound_scale")>>)

\* Link.__init__: each attribute from its keyword, None by default
Link_init(ns, kwargs) ==
  [cls |-> "Link", ns |-> ns,
   attrs |-> [a \in LinkAttributes |-> IF a \in DOMAIN kwargs THEN kwargs[a] ELSE None]]

\* cls.class_from_element: cls(**cls._get_kwargs(...)), an exception passing through
Link_class_from_element(element, ns, strict) ==
  LET got == Link_get_kwargs(element, ns, strict)
  IN  IF got.exc # "" THEN [exc |-> got.exc, obj |-> Link_init(ns, EmptyDict)]
      ELSE [exc |-> "", obj |-> Link_init(ns, got.ret)]

\* the Links encoded: each attribute unset or set to a value of its kind
LinkTexts == {None, StrV(<<"u">>)}
LinkFloats == {None, FloatV("fin", FALSE, 0, 0), FloatV("fin", FALSE, 15, -1)}
EnumMembers(c) == {EnumV(c, v) : v \in EnumValues(c)}

LinkKwargs ==
  [href : LinkTexts, view_format : LinkTexts, http_query : LinkTexts,
   refresh_mode : {None} \cup EnumMembers("RefreshMode"),
   view_refresh_mode : {None} \cup EnumMembers("ViewRefreshMode"),
   refresh_interval : LinkFloats, view_refresh_time : LinkFloats,
   view_bound_scale : LinkFloats]

LinkEncode ==
  /\ op.name = "Link" /\ op.ph = "new"
  /\ op' = [op EXCEPT !.ph = "encoded", !.element = Link_etree_element(op.obj)]
  /\ UNCHANGED <<_registry, regLog>>

LinkDecode ==
  /\ op.name = "Link" /\ op.ph = "encoded"
  /\ op' = [op EXCEPT !.ph = "decoded",
                      !.out = Link_class_from_element(op.element, op.obj.ns, op.strict)]
  /\ UNCHANGED <<_registry, regLog>>

InitLink ==
  /\ _registry = EmptyRegistry /\ regLog = <<>>
  /\ \E kw \in LinkKwargs, strict \in BOOLEAN :
       op = [name |-> "Link", ph |-> "new", obj |-> Link_init("", kw), strict |-> strict,
             element |-> Base_etree_element(Link_init("", kw)),
             out |-> [exc |-> "", obj |-> Link_init("", kw)]]

NextLink == LinkEncode \/ LinkDecode

SpecLink == InitLink /\ [][NextLink]_vars

\* C1: a Link built with any subset of its attributes set to values of their
\* kind, encoded and then decoded, strict or lenient, is reconstructed equal
\* on every registered attribute.
C1_LinkRoundTrip ==
  (op.name = "Link" /\ op.ph = "decoded") =>
    /\ op.out.exc = ""
    /\ \A a \in LinkAttributes :
         \/ op.obj.attrs[a] = None /\ op.out.obj.attrs[a] = None
         \/ PyEq(op.obj.attrs[a], op.out.obj.attrs[a])

====
